---- MODULE Spec2Model ----
(***************************************************************************)
(* Model of the infrastructure registry kept by infra.py and cluster.py:   *)
(* the per-name directories under infra_dir with their artifact files      *)
(* (name, infra_id, infra.json, iam.json, cluster.yaml), the command lines *)
(* the two tools compose, and the configuration directory resolution of    *)
(* config.py.  One action is one run of one of the two command-line tools, *)
(* from its entry point to the exit of the process.                        *)
(***************************************************************************)
EXTENDS Integers, Sequences, FiniteSets, TLC

(* ------------------------------ bounds -------------------------------- *)

\* how many of the outcomes of the random suffix the model draws from
MaxSuffixes == 2

\* how many tags a response of the 4-stable endpoint lists at most
MaxTags == 2

(* ------------------------- input domains ------------------------------ *)

\* ascii_lowercase + digits (infra.py:14)
characters ==
  << "a", "b", "c", "d", "e", "f", "g", "h", "i", "j", "k", "l", "m",
     "n", "o", "p", "q", "r", "s", "t", "u", "v", "w", "x", "y", "z",
     "0", "1", "2", "3", "4", "5", "6", "7", "8", "9" >>

\* generate_random_string(length=6)
SuffixLen == 6

RECURSIVE Repeat(_, _)
Repeat(c, k) == IF k = 0 THEN "" ELSE Repeat(c, k - 1) \o c

\* The names the operator types at the "Name" prompt, in sorted order.  The
\* second one is the first one followed by "-" and a possible suffix, so
\* that an infra_id of the first can be equal to the second NAME.
NameOrder == << "a", "a-" \o Repeat("a", SuffixLen) >>
Names == { NameOrder[i] : i \in 1..Len(NameOrder) }
Regions == { "us-east-1" }
BaseDomains == { "example.com" }
ExitCodes == { 0, 1 }

\* choices of the "External Traffic" prompt (infra.py:47-48)
ConnectivityChoices == { "Public", "Proxy", "SecureProxy", "NAT gateway" }
\* choices of select_access_mode (cluster.py:81)
AccessModes == { "Public", "PublicAndPrivate", "Private" }
\* choices of select_control_plane_version (cluster.py:103)
CpVersions == { "v2", "v1" }

\* the configurations load_config can return; infra_dir and the credential
\* paths are the same in all of them
infra_dir == "/infras"
MkCFG(dns, repo, prefix) ==
  [ hypershift_path |-> "hypershift", infra_dir |-> infra_dir,
    aws_creds_path |-> "/creds", pull_secret_path |-> "/pull-secret",
    oidc_s3_bucket_name |-> "bucket", oidc_s3_region |-> "us-east-1",
    external_dns_domain |-> dns, hypershift_repo_dir |-> repo,
    local_cpo_image_prefix |-> prefix ]
Configs ==
  { MkCFG("", "/src/hypershift", "quay.io/me/hypershift"),
    MkCFG("ext.example.com", "", "") }

(* ----------------------------- state ---------------------------------- *)

VARIABLES
  root,    \* TRUE iff the directory infra_dir exists
  fs,      \* directory name under infra_dir |-> (file name |-> contents)
  CFG,     \* the configuration object the tools load
  run,     \* what the last run of a tool did: command, outcome, exit status,
           \* the external commands it started
  env,     \* the environment config.py resolves the configuration directory in
  cfgdir   \* the last result of _os_config_dir

vars == << root, fs, CFG, run, env, cfgdir >>

\* Python's None: what os.getenv and shutil.which return for what is not
\* there, and what a function returns that falls off its end
None == "<None>"

\* the answers of the release image prompts and the response of the release
\* endpoint, before any render run
NoRelease ==
  [ selection |-> "", pullspec |-> "", version_type |-> "",
    response |-> [ ok |-> TRUE, pullSpec |-> None, tags |-> << >> ] ]

NoRun ==
  [ tool |-> "none", op |-> "none", arg |-> "", outcome |-> "none",
    exit |-> 0, calls |-> << >>,
    connectivity |-> "", access_mode |-> "", local_cpo |-> FALSE,
    release |-> NoRelease ]

\* the record of a finished run
Ran(tool, op, arg, outcome, exit, calls) ==
  [ NoRun EXCEPT !.tool = tool, !.op = op, !.arg = arg, !.outcome = outcome,
                 !.exit = exit, !.calls = calls ]

\* an external command that was started, with its exit status
Call(argv, rc) == [ argv |-> argv, rc |-> rc ]

(* ------------------------- files and paths ---------------------------- *)

\* os.path.join(infra_dir, d, f)
FilePath(d, f) == infra_dir \o "/" \o d \o "/" \o f

HasFile(d, f) == d \in DOMAIN fs /\ f \in DOMAIN fs[d]

\* dict / directory update: m with key k bound to v
Put(m, k, v) == [ x \in (DOMAIN m) \cup {k} |-> IF x = k THEN v ELSE m[x] ]
\* shutil.rmtree of one directory
Remove(m, k) == [ x \in (DOMAIN m) \ {k} |-> m[x] ]

(* ------------------------ the shell and its tools --------------------- *)

\* word splitting: an empty expansion contributes no word
Words(tokens) == SelectSeq(tokens, LAMBDA t : t # "")

HasFlag(argv, flag) == \E i \in 1..Len(argv) : argv[i] = flag
\* the word that follows a flag on a command line
FlagValue(argv, flag) ==
  argv[(CHOOSE i \in 1..Len(argv) : argv[i] = flag) + 1]

\* $(jq -r '.<field>' <infra_out>) as it stands in the command text
Jq(field) == "$(jq -r '." \o field \o "')"
ZoneFields == { "localZoneID", "publicZoneID", "privateZoneID" }
\* command substitution, done by the shell when it reaches the command
Substitute(tokens, infra_json) ==
  [ i \in 1..Len(tokens) |->
      IF \E z \in ZoneFields : tokens[i] = Jq(z)
      THEN infra_json[CHOOSE z \in ZoneFields : tokens[i] = Jq(z)]
      ELSE tokens[i] ]

\* "hypershift create infra aws ... --output-file F": what it writes to F
InfraJson(argv) ==
  [ infraID |-> FlagValue(argv, "--infra-id"),
    Name |-> FlagValue(argv, "--name"),
    region |-> FlagValue(argv, "--region"),
    baseDomain |-> FlagValue(argv, "--base-domain"),
    localZoneID |-> "Z-local", publicZoneID |-> "Z-public",
    privateZoneID |-> "Z-private" ]

\* "hypershift create iam aws ... --output-file F": what it writes to F
IamJson(argv) ==
  [ infraID |-> FlagValue(argv, "--infra-id"),
    region |-> FlagValue(argv, "--region") ]

(* ----------------------------- infra.py ------------------------------- *)

\* generate_random_string: strings of SuffixLen characters drawn from
\* `characters'; the model draws from MaxSuffixes of the 36^6 outcomes
generate_random_string ==
  { Repeat(characters[i], SuffixLen) : i \in 1..MaxSuffixes }
FirstSuffix == Repeat(characters[1], SuffixLen)

\* infra_id = f"{answers['name']}-{suffix}"
InfraIdNoName(name, suffix) == suffix
InfraId(name, suffix) == name \o "-" \o suffix

\* os.path.exists(infra_path) in create_infra
path_isfile(name) == FALSE
path_exists(name) == name \in DOMAIN fs

\* list_infra: the sorted directory names (the root is created if missing)
list_infra == SelectSeq(NameOrder, LAMBDA d : d \in DOMAIN fs)

ListSet(l) == { l[i] : i \in 1..Len(l) }

connectivity_flag_swapped ==
  [ c \in ConnectivityChoices |->
      CASE c = "Public" -> "--public-only"
        [] c = "Proxy" -> "--enable-secure-proxy"
        [] c = "SecureProxy" -> "--enable-proxy"
        [] OTHER -> "" ]
connectivity_flag_mapping ==
  [ c \in ConnectivityChoices |->
      CASE c = "Public" -> "--public-only"
        [] c = "Proxy" -> "--enable-proxy"
        [] c = "SecureProxy" -> "--enable-secure-proxy"
        [] OTHER -> "" ]

\* the command text of create_infra, token by token
create_command(answers, infra_id) ==
  LET infra_out == FilePath(answers.name, "infra.json")
      iam_out == FilePath(answers.name, "iam.json")
  IN << CFG.hypershift_path, "create", "infra", "aws",
        "--aws-creds", CFG.aws_creds_path,
        "--base-domain", answers.base_domain,
        "--infra-id", infra_id,
        "--name", answers.name,
        "--region", answers.region,
        connectivity_flag_mapping[answers.external_connectivity],
        "--output-file", infra_out,
        "&&",
        CFG.hypershift_path, "create", "iam", "aws",
        "--aws-creds", CFG.aws_creds_path,
        "--infra-id", infra_id,
        "--oidc-storage-provider-s3-bucket-name", CFG.oidc_s3_bucket_name,
        "--oidc-storage-provider-s3-region", CFG.oidc_s3_region,
        "--region", answers.region,
        "--local-zone-id", Jq("localZoneID"),
        "--public-zone-id", Jq("publicZoneID"),
        "--private-zone-id", Jq("privateZoneID"),
        "--output-file", iam_out >>

\* execute_command on "A && B": B runs only when A exits zero; each tool
\* writes its output file when it succeeds.  The result is the files of the
\* directory, the commands that ran and the exit status of the list.
execute_create(command, files, rcInfra, rcIam) ==
  LET amp == CHOOSE i \in 1..Len(command) : command[i] = "&&"
      argvA == Words(SubSeq(command, 1, amp - 1))
      filesA == IF rcInfra = 0
                THEN Put(files, "infra.json", InfraJson(argvA)) ELSE files
      argvB == Words(Substitute(SubSeq(command, amp + 1, Len(command)),
                                filesA["infra.json"]))
      filesB == IF rcIam = 0
                THEN Put(filesA, "iam.json", IamJson(argvB)) ELSE filesA
  IN IF rcInfra # 0
     THEN [ files |-> filesA, calls |-> << Call(argvA, rcInfra) >>,
            rc |-> rcInfra ]
     ELSE [ files |-> filesB,
            calls |-> << Call(argvA, rcInfra), Call(argvB, rcIam) >>,
            rc |-> rcIam ]

\* the registry after execute_command returned in create_infra: the exit
\* status selects the message printed and nothing else, the directory and
\* what was written into it stay
after_create_rollback(m, name, res) ==
  IF res.rc = 0 THEN Put(m, name, res.files) ELSE m
after_create(m, name, res) == Put(m, name, res.files)

\* infra.py create (main, then create_infra).  cancelAt is the prompt the
\* operator interrupts: "menu", "prompt" or "none".
create_infra(cancelAt, answers, suffix, rcInfra, rcIam) ==
  LET name == answers.name
      infra_id == InfraId(name, suffix)
      files == [ f \in { "name", "infra_id" } |->
                   IF f = "name" THEN name ELSE infra_id ]
      conn == answers.external_connectivity
  IN /\ UNCHANGED << CFG, env, cfgdir >>
     /\ IF cancelAt # "none"
        THEN /\ run' = Ran("infra", "create", "", "UserCancelled", 0, << >>)
             /\ UNCHANGED << root, fs >>
        ELSE IF path_exists(name)
        THEN /\ run' = Ran("infra", "create", name, "AlreadyExists", 0, << >>)
             /\ UNCHANGED << root, fs >>
        ELSE \E res \in { execute_create(create_command(answers, infra_id),
                                          files, rcInfra, rcIam) } :
             /\ root' = TRUE
             /\ fs' = after_create(fs, name, res)
             /\ run' = [ Ran("infra", "create", name,
                             IF res.rc = 0 THEN "Created"
                                           ELSE "ExternalCommandFailed",
                             0, res.calls) EXCEPT !.connectivity = conn ]

\* infra.py create, the random suffix drawn from `suffixes'
InfraCreateFrom(suffixes) ==
  \/ \E cancelAt \in { "menu", "prompt" } :
       create_infra(cancelAt,
                    [ name |-> "", region |-> "", base_domain |-> "",
                      external_connectivity |-> "Public" ], "", 0, 0)
  \/ \E name \in Names, region \in Regions, base_domain \in BaseDomains,
        conn \in ConnectivityChoices, suffix \in suffixes,
        rcInfra \in ExitCodes, rcIam \in ExitCodes :
       /\ rcInfra # 0 => rcIam = 0    \* the IAM step does not run then
       /\ path_exists(name) =>
            /\ suffix = FirstSuffix
            /\ rcInfra = 0 /\ rcIam = 0
       /\ create_infra("none",
                       [ name |-> name, region |-> region,
                         base_domain |-> base_domain,
                         external_connectivity |-> conn ],
                       suffix, rcInfra, rcIam)

InfraCreate == InfraCreateFrom(generate_random_string)
\* the same with one outcome of the random suffix
InfraCreateOne == InfraCreateFrom({ FirstSuffix })

\* a create of the first name with the NAT gateway choice
InfraCreateFirstName ==
  \E region \in Regions, base_domain \in BaseDomains, rcInfra \in ExitCodes :
    create_infra("none",
                 [ name |-> NameOrder[1], region |-> region,
                   base_domain |-> base_domain,
                   external_connectivity |-> "NAT gateway" ],
                 FirstSuffix, rcInfra, 0)

\* the combined success flag of destroy_infra
destroy_success_infra_only(hasInfra, rcInfra, hasIam, rcIam) ==
  ~hasInfra \/ rcInfra = 0
destroy_success_needs_artifact(hasInfra, rcInfra, hasIam, rcIam) ==
  /\ hasInfra \/ hasIam
  /\ hasInfra => rcInfra = 0
  /\ hasIam => rcIam = 0
destroy_success(hasInfra, rcInfra, hasIam, rcIam) ==
  /\ hasInfra => rcInfra = 0
  /\ hasIam => rcIam = 0

\* whether destroy_infra runs the IAM step: the test of iam.json does not
\* look at the outcome of the infra step
iam_step_skipped_after_failure(hasInfra, rcInfra, hasIam) ==
  hasIam /\ (hasInfra => rcInfra = 0)
iam_step_runs(hasInfra, rcInfra, hasIam) == hasIam

destroy_infra_command(data) ==
  << "hypershift", "destroy", "infra", "aws",
     "--infra-id=" \o data.infraID, "--name=" \o data.Name,
     "--region=" \o data.region,
     "--aws-creds", CFG.aws_creds_path,
     "--base-domain=" \o data.baseDomain >>

destroy_iam_command(data) ==
  << "hypershift", "destroy", "iam", "aws",
     "--infra-id=" \o data.infraID,
     "--aws-creds", CFG.aws_creds_path,
     "--region=" \o data.region >>

\* infra.py destroy (main, then destroy_infra)
destroy_infra(cancelAt, infra_name, rcInfra, rcIam) ==
  LET infra_list == list_infra
      hasInfra == HasFile(infra_name, "infra.json")
      hasIam == HasFile(infra_name, "iam.json")
      callsInfra ==
        IF hasInfra
        THEN << Call(Words(destroy_infra_command(fs[infra_name]["infra.json"])),
                     rcInfra) >>
        ELSE << >>
      callsIam ==
        IF iam_step_runs(hasInfra, rcInfra, hasIam)
        THEN << Call(Words(destroy_iam_command(fs[infra_name]["iam.json"])),
                     rcIam) >>
        ELSE << >>
      success == destroy_success(hasInfra, rcInfra, hasIam, rcIam)
  IN /\ UNCHANGED << CFG, env, cfgdir >>
     /\ IF cancelAt = "menu"
        THEN /\ run' = Ran("infra", "destroy", "", "UserCancelled", 0, << >>)
             /\ UNCHANGED << root, fs >>
        ELSE /\ root' = TRUE
             /\ IF infra_list = << >>
                THEN /\ run' = Ran("infra", "destroy", "", "NoInfrastructure",
                                   0, << >>)
                     /\ UNCHANGED fs
                ELSE IF cancelAt = "prompt"
                THEN /\ run' = Ran("infra", "destroy", "", "UserCancelled",
                                     0, << >>)
                     /\ UNCHANGED fs
                ELSE /\ run' = Ran("infra", "destroy", infra_name,
                                   IF success THEN "Destroyed"
                                              ELSE "ExternalCommandFailed",
                                   0, callsInfra \o callsIam)
                     /\ fs' = IF success THEN Remove(fs, infra_name) ELSE fs

InfraDestroy ==
  \/ \E cancelAt \in { "menu", "prompt" } : destroy_infra(cancelAt, "", 0, 0)
  \/ /\ list_infra = << >>
     /\ destroy_infra("none", "", 0, 0)
  \/ \E infra_name \in ListSet(list_infra),
        rcInfra \in ExitCodes, rcIam \in ExitCodes :
       /\ ~HasFile(infra_name, "infra.json") => rcInfra = 0
       /\ ~HasFile(infra_name, "iam.json") => rcIam = 0
       /\ destroy_infra("none", infra_name, rcInfra, rcIam)

\* infra.py list (main, then list_infra)
InfraList ==
  \E cancelAt \in { "none", "menu" } :
    /\ UNCHANGED << fs, CFG, env, cfgdir >>
    /\ IF cancelAt = "menu"
       THEN /\ run' = Ran("infra", "list", "", "UserCancelled", 0, << >>)
            /\ UNCHANGED root
       ELSE /\ run' = Ran("infra", "list", "", "Listed", 0, << >>)
            /\ root' = TRUE

(* ----------------------------- utils.py ------------------------------- *)

\* safe_prompt: the exit status of the process when the prompt is cancelled
safe_prompt_exit == 1

(* ----------------------------- config.py ------------------------------ *)

\* <tool> config (main, run_config_interactive, prompt_and_write_config):
\* the menu of infra.py is a bare inquirer.prompt, every other prompt is a
\* safe_prompt; the answers replace the configuration and infra_dir is made.
Config(tool) ==
  \E cancelAt \in { "none", "menu", "config" }, answers \in Configs :
    /\ cancelAt # "none" => answers = CFG
    /\ UNCHANGED << fs, env, cfgdir >>
    /\ IF cancelAt # "none"
       THEN /\ run' = Ran(tool, "config", "", "UserCancelled",
                            IF tool = "infra" /\ cancelAt = "menu"
                            THEN 0 ELSE safe_prompt_exit, << >>)
            /\ UNCHANGED << root, CFG >>
       ELSE /\ run' = Ran(tool, "config", "", "Configured", 0, << >>)
            /\ CFG' = answers
            /\ root' = TRUE

(* ----------------------------- cluster.py ----------------------------- *)

\* list_yaml_infras: the directories that hold a cluster.yaml file (in the
\* order of os.listdir, which is unspecified: a set)
list_yaml_infras_by_infra_json ==
  IF ~root THEN { } ELSE { d \in DOMAIN fs : "infra.json" \in DOMAIN fs[d] }
list_yaml_infras ==
  IF ~root THEN { } ELSE { d \in DOMAIN fs : "cluster.yaml" \in DOMAIN fs[d] }

\* what "git rev-parse --short=9 HEAD" can do: fail, print nothing, print a hash
(* ------------------- cluster.py: get_release_image ------------------- *)

\* the choices of the first prompt of get_release_image
major_version_choices ==
  << "4.20", "4.19", "4.18", "4.17", "4.16", "4.15", "4.14" >>
pullspec_choice == "Specify release image pullspec"
version_choices == << "ci", "nightly", "stable" >>

\* str.startswith
startswith_equal(s, prefix) == s = prefix
startswith(s, prefix) ==
  Len(s) >= Len(prefix) /\ SubSeq(s, 1, Len(prefix)) = prefix

\* the tags the 4-stable endpoint may list, and the entry of one
TagNames == { "4.20.1", "4.20.0", "4.2.9" }
Tag(name) ==
  [ name |-> name,
    pullSpec |-> "quay.io/openshift-release-dev/ocp-release:" \o name ]
LatestPullSpec == "registry.ci.openshift.org/ocp/release:latest"

RECURSIVE SeqsUpTo(_, _)
SeqsUpTo(S, k) ==
  IF k = 0 THEN { << >> }
  ELSE LET shorter == SeqsUpTo(S, k - 1)
       IN shorter \cup { Append(l, x) : l \in shorter, x \in S }

\* data["tags"] of a response: up to MaxTags entries in any order
TagLists == SeqsUpTo({ Tag(n) : n \in TagNames }, MaxTags)

\* get_release_image, lines 71-73: the loop over data["tags"]; None when it
\* runs off the end of the list
RECURSIVE stable_tags_loop(_, _)
stable_tags_loop(tags, major_version) ==
  IF tags = << >> THEN None
  ELSE IF startswith(Head(tags).name, major_version)
  THEN Head(tags).pullSpec
  ELSE stable_tags_loop(Tail(tags), major_version)

\* get_release_image: whether the process exited (sys.exit(1) on a failed
\* request) and the value returned otherwise
get_release_image(release) ==
  LET major_version == release.selection
      version_type == release.version_type
      response == release.response
  IN IF release.selection = pullspec_choice
     THEN [ exited |-> FALSE, value |-> release.pullspec ]
     ELSE IF ~response.ok
     THEN [ exited |-> TRUE, value |-> None ]
     ELSE IF version_type = "ci" \/ version_type = "nightly"
     THEN [ exited |-> FALSE,
            value |-> IF response.pullSpec # None
                      THEN response.pullSpec
                      ELSE "Error: No release image found for "
                             \o major_version \o " " \o version_type ]
     ELSE [ exited |-> FALSE,
            value |-> stable_tags_loop(response.tags, major_version) ]

\* str(), as the f-string of the render command applies it
str(v) == IF v = None THEN "None" ELSE v

\* the words the shell splits an unquoted text into
RECURSIVE ShellWords(_)
ShellWords(text) ==
  LET spaces == { i \in 1..Len(text) : SubSeq(text, i, i) = " " }
      sp == CHOOSE i \in spaces : \A j \in spaces : i <= j
  IN IF spaces = { } THEN Words(<< text >>)
     ELSE Words(<< SubSeq(text, 1, sp - 1) >>)
            \o ShellWords(SubSeq(text, sp + 1, Len(text)))

(* --------------------- cluster.py: render and apply ------------------- *)

GitResults ==
  { [ rc |-> 1, out |-> "" ], [ rc |-> 0, out |-> "" ],
    [ rc |-> 0, out |-> "abc123def" ] }

\* render_cluster_yaml, lines 182-201: the git command runs when the local
\* operator is asked for and the repository and image prefix are configured
\* (a configured repository is taken to be a directory)
git_invoked(local_cpo) ==
  /\ local_cpo
  /\ CFG.hypershift_repo_dir # ""
  /\ CFG.local_cpo_image_prefix # ""

git_command ==
  << "git", "-C", CFG.hypershift_repo_dir, "rev-parse", "--short=9", "HEAD" >>

cpo_image_flag(local_cpo, git) ==
  IF git_invoked(local_cpo) /\ git.rc = 0 /\ git.out # ""
  THEN << "--control-plane-operator-image",
          CFG.local_cpo_image_prefix \o ":" \o git.out >>
  ELSE << >>

\* render_cluster_yaml, lines 203-207: the local variable is assigned only
\* for Private and PublicAndPrivate
custom_domain_flag(access_mode) ==
  IF access_mode = "Private" \/ access_mode = "PublicAndPrivate"
  THEN [ bound |-> TRUE,
         words |-> IF CFG.external_dns_domain # ""
                   THEN << "--external-dns-domain", CFG.external_dns_domain >>
                   ELSE << >> ]
  ELSE [ bound |-> FALSE, words |-> << >> ]

cp_version_flag(cp_version) ==
  IF cp_version = "v2"
  THEN << "--annotations", "hypershift.openshift.io/cpo-v2=true" >>
  ELSE << >>

\* the command text of render_cluster_yaml, lines 222-244
render_command(infra, data, release_image, access_mode, control_plane, infrastructure, cp_version, local_cpo, node_count, instance_type, git) ==
  << CFG.hypershift_path, "create", "cluster", "aws", "--render",
     "--aws-creds", CFG.aws_creds_path,
     "--instance-type", instance_type,
     "--region", data.region,
     "--control-plane-availability-policy", control_plane,
     "--infra-availability-policy", infrastructure,
     "--auto-repair", "--generate-ssh",
     "--name", data.Name,
     "--endpoint-access", access_mode,
     "--node-pool-replicas", node_count,
     "--pull-secret", CFG.pull_secret_path,
     "--infra-id", data.infraID,
     "--infra-json", FilePath(infra, "infra.json"),
     "--iam-json", FilePath(infra, "iam.json"),
     "--base-domain", data.baseDomain >>
  \o custom_domain_flag(access_mode).words
  \o << "--release-image" >> \o ShellWords(str(release_image))
  \o cpo_image_flag(local_cpo, git)
  \o << "--annotations",
        "hypershift.openshift.io/cleanup-cloud-resources=true" >>
  \o cp_version_flag(cp_version)
  \o << "--render-sensitive", "--render", ">", FilePath(infra, "cluster.yaml") >>

\* subprocess.run(command, shell=True) on "A > F": the shell creates or
\* truncates F before A starts; A's output is what F holds afterwards
execute_render_into_infra_id(command, files, rc) ==
  LET gt == CHOOSE i \in 1..Len(command) : command[i] = ">"
      argv == Words(SubSeq(command, 1, gt - 1))
  IN [ files |-> Put(files, "infra_id", IF rc = 0 THEN "rendered" ELSE ""),
       calls |-> << Call(argv, rc) >> ]
execute_render(command, files, rc) ==
  LET gt == CHOOSE i \in 1..Len(command) : command[i] = ">"
      argv == Words(SubSeq(command, 1, gt - 1))
  IN [ files |-> Put(files, "cluster.yaml", IF rc = 0 THEN "rendered" ELSE ""),
       calls |-> << Call(argv, rc) >> ]

\* render_cluster_yaml: the files of the directory afterwards, the external
\* commands started, the outcome and the exit status of the process
render_cluster_yaml(infra, release_image, access_mode, control_plane, infrastructure, cp_version, local_cpo, node_count, instance_type, git, rc) ==
  LET files == fs[infra]
      gitCalls == IF git_invoked(local_cpo)
                  THEN << Call(git_command, git.rc) >> ELSE << >>
      command == render_command(infra, files["infra.json"], release_image,
                                access_mode, control_plane, infrastructure,
                                cp_version, local_cpo, node_count,
                                instance_type, git)
      res == execute_render(command, files, rc)
  IN IF "infra.json" \notin DOMAIN files
     THEN [ files |-> files, calls |-> gitCalls,
            outcome |-> "MissingArtifact", exit |-> 0 ]
     ELSE IF ~custom_domain_flag(access_mode).bound
     THEN [ files |-> files, calls |-> gitCalls,
            outcome |-> "UnboundLocalError", exit |-> 1 ]
     ELSE [ files |-> res.files, calls |-> gitCalls \o res.calls,
            outcome |-> IF rc = 0 THEN "Rendered"
                                  ELSE "ExternalCommandFailed",
            exit |-> IF rc = 0 THEN 0 ELSE 1 ]

RenderPrompts ==
  { "menu", "infra", "release_image", "access_mode", "replica_mode",
    "cp_version", "local_cpo", "node_count" }

\* cluster.py render (main, select_infra, the prompts, render_cluster_yaml)
render(cancelAt, infra, release, access_mode, cp_version, local_cpo, git, rc) ==
  /\ UNCHANGED << CFG, env, cfgdir >>
  /\ IF cancelAt = "menu"
        THEN /\ run' = Ran("cluster", "render", "", "UserCancelled",
                             safe_prompt_exit, << >>)
             /\ UNCHANGED << root, fs >>
        ELSE /\ root' = TRUE
             /\ IF list_infra = << >>
                THEN /\ run' = Ran("cluster", "render", "", "NoInfrastructure",
                                   0, << >>)
                     /\ UNCHANGED fs
                ELSE IF cancelAt # "none"
                THEN /\ run' = Ran("cluster", "render", "", "UserCancelled",
                                     safe_prompt_exit, << >>)
                     /\ UNCHANGED fs
                ELSE \E release_image \in { get_release_image(release) } :
                     IF release_image.exited
                     THEN /\ run' = [ Ran("cluster", "render", infra,
                                          "NetworkFetchFailed", 1, << >>)
                                        EXCEPT !.release = release ]
                          /\ UNCHANGED fs
                     ELSE \E res \in { render_cluster_yaml(
                                     infra, release_image.value, access_mode,
                                     "SingleReplica", "SingleReplica",
                                     cp_version, local_cpo, "2", "m6i.xlarge",
                                     git, rc) } :
                     /\ run' = [ Ran("cluster", "render", infra, res.outcome,
                                     res.exit, res.calls)
                                   EXCEPT !.access_mode = access_mode,
                                          !.local_cpo = local_cpo,
                                          !.release = release ]
                     /\ fs' = Put(fs, infra, res.files)

\* the operator enters a pull-spec at the release image prompt
LiteralRelease ==
  [ NoRelease EXCEPT !.selection = pullspec_choice,
                     !.pullspec = "quay.io/ocp/release:4.20" ]

\* the operator picks a major version (the model draws two of the seven
\* choices: one with two tags in TagNames, one with none) and a version
\* type, and the endpoint answers: the latest endpoint with or without a
\* pullSpec, the tags endpoint with a list of tags, either with an error
MajorVersions == { major_version_choices[1], major_version_choices[2] }
ResolvedReleases ==
  { r \in [ selection : MajorVersions, pullspec : { "" },
            version_type : ListSet(version_choices),
            response : [ ok : BOOLEAN, pullSpec : { None, LatestPullSpec },
                         tags : TagLists ] ] :
      /\ ~r.response.ok
           => r.response.pullSpec = None /\ r.response.tags = << >>
      /\ r.version_type = "stable" => r.response.pullSpec = None
      /\ r.version_type # "stable" => r.response.tags = << >> }

ClusterRender ==
  \/ \E cancelAt \in RenderPrompts :
       render(cancelAt, "", LiteralRelease, "Public", "v2", FALSE,
              [ rc |-> 0, out |-> "" ], 0)
  \/ /\ list_infra = << >>
     /\ render("none", "", LiteralRelease, "Public", "v2", FALSE,
               [ rc |-> 0, out |-> "" ], 0)
  \/ \E infra \in ListSet(list_infra), access_mode \in AccessModes,
        cp_version \in CpVersions, local_cpo \in BOOLEAN,
        git \in GitResults, rc \in ExitCodes :
       /\ ~git_invoked(local_cpo) => git = [ rc |-> 0, out |-> "" ]
       /\ (~HasFile(infra, "infra.json") \/ access_mode = "Public") => rc = 0
       /\ render("none", infra, LiteralRelease, access_mode,
                 cp_version, local_cpo, git, rc)

\* cluster.py render with the release image resolved from a major version
ClusterRenderResolved ==
  \E infra \in ListSet(list_infra), release \in ResolvedReleases,
     access_mode \in { "Public", "Private" }, rc \in ExitCodes :
    /\ ( \/ ~HasFile(infra, "infra.json") \/ access_mode = "Public"
         \/ ~release.response.ok ) => rc = 0
    /\ render("none", infra, release, access_mode, "v2", FALSE,
              [ rc |-> 0, out |-> "" ], rc)

\* cluster.py apply (main, apply_cluster_yaml, select_yaml_infra)
apply_cluster_yaml(cancelAt, infra, rc) ==
  LET command == << "oc", "apply", "-f", FilePath(infra, "cluster.yaml") >>
  IN /\ UNCHANGED << root, fs, CFG, env, cfgdir >>
     /\ IF cancelAt = "menu"
        THEN run' = Ran("cluster", "apply", "", "UserCancelled",
                          safe_prompt_exit, << >>)
        ELSE IF list_yaml_infras = { }
        THEN run' = Ran("cluster", "apply", "", "NoInfrastructure", 0, << >>)
        ELSE IF cancelAt # "none"
        THEN run' = Ran("cluster", "apply", "", "UserCancelled",
                          safe_prompt_exit, << >>)
        ELSE IF ~HasFile(infra, "cluster.yaml")
        THEN run' = Ran("cluster", "apply", infra, "MissingArtifact", 0, << >>)
        ELSE run' = Ran("cluster", "apply", infra,
                        IF rc = 0 THEN "Applied" ELSE "ExternalCommandFailed",
                        0, << Call(command, rc) >>)

ClusterApply ==
  \/ \E cancelAt \in { "menu", "infra" } : apply_cluster_yaml(cancelAt, "", 0)
  \/ /\ list_yaml_infras = { }
     /\ apply_cluster_yaml("none", "", 0)
  \/ \E infra \in list_yaml_infras, rc \in ExitCodes :
       apply_cluster_yaml("none", infra, rc)

\* what "oc get hc -n clusters --no-headers" can report
HostedClusterLists == { << >>, << "hc1" >> }

get_hosted_clusters_command ==
  << "oc", "get", "hc", "-n", "clusters", "--no-headers" >>

\* cluster.py k, rm and list (main, create_kubeconfig, delete_hosted_cluster,
\* select_hosted_cluster, get_hosted_clusters): none touches the registry
hosted_cluster_command(op, cancelAt, clusters, rcGet, rc) ==
  LET found == IF rcGet = 0 THEN clusters ELSE << >>
      getCalls == << Call(get_hosted_clusters_command, rcGet) >>
      command ==
        IF op = "rm"
        THEN << "oc", "delete", "hc", "-n", "clusters", found[1],
                "--wait=false" >>
        ELSE << CFG.hypershift_path, "create", "kubeconfig", "--name",
                found[1] >>
  IN /\ UNCHANGED << root, fs, CFG, env, cfgdir >>
     /\ IF cancelAt = "menu"
        THEN run' = Ran("cluster", op, "", "UserCancelled",
                          safe_prompt_exit, << >>)
        ELSE IF op = "list"
        THEN run' = Ran("cluster", op, "", "Listed", 0, getCalls)
        ELSE IF found = << >>
        THEN run' = Ran("cluster", op, "", "NoHostedCluster", 0, getCalls)
        ELSE IF cancelAt # "none"
        THEN run' = Ran("cluster", op, "", "UserCancelled",
                          safe_prompt_exit, getCalls)
        ELSE run' = Ran("cluster", op, "",
                        IF rc = 0 THEN "Done" ELSE "ExternalCommandFailed",
                        0, getCalls \o << Call(command, rc) >>)

ClusterHosted ==
  \E op \in { "k", "rm", "list" },
     cancelAt \in { "none", "menu", "hc", "kubeconfig_name" },
     clusters \in HostedClusterLists, rcGet \in ExitCodes, rc \in ExitCodes :
    /\ cancelAt = "kubeconfig_name" => op = "k"
    /\ cancelAt = "hc" => op # "list"
    /\ cancelAt = "menu" => clusters = << >> /\ rcGet = 0
    /\ rcGet # 0 => clusters = << >>
    /\ rcGet = 0 \/ cancelAt = "none"
    /\ (cancelAt # "none" \/ op = "list" \/ clusters = << >>) => rc = 0
    /\ hosted_cluster_command(op, cancelAt, clusters, rcGet, rc)

(* --------------------- config.py: _os_config_dir ---------------------- *)

\* pathlib.Path.home()
home == "/home/u"
\* os.path.join
join(a, b) == a \o "/" \o b

legacy_config_dir == join(home, ".infra")
\* what "systemd-path user-configuration" prints
systemd_user_configuration == "/home/u/.config"

Platforms == { "Linux", "Darwin", "Windows", "FreeBSD" }
Envs ==
  [ legacy : BOOLEAN, platform : Platforms,
    xdg : { None, "/xdg" }, systemd : { None, "/usr/bin/systemd-path" },
    appdata : { None, "C:/AppData" } ]

\* the Linux branch with XDG_CONFIG_HOME set (config.py:47-48)
xdg_config_dir(xdg) == xdg

\* _os_config_dir in the environment e: the directory returned, or the exit
\* status when the process is terminated, and the warnings printed
os_config_dir(e) ==
  LET Result(dir, warnings) ==
        [ done |-> TRUE, dir |-> dir, exit |-> 0, warnings |-> warnings ]
      Exit(warnings) ==
        [ done |-> TRUE, dir |-> None, exit |-> 1, warnings |-> warnings ]
  IN IF e.legacy THEN Result(legacy_config_dir, << >>)
     ELSE CASE e.platform = "Linux" ->
                 IF e.xdg # None THEN Result(xdg_config_dir(e.xdg), << >>)
                 ELSE IF e.systemd = None
                 THEN Result(legacy_config_dir,
                             << "XDG_CONFIG_HOME is not defined",
                                "systemd-path tool not found" >>)
                 ELSE Result(join(systemd_user_configuration, "infra"),
                             << "XDG_CONFIG_HOME is not defined" >>)
            [] e.platform = "Darwin" ->
                 Result(join(join(join(home, "Library"),
                                  "Application Support"), "Infra"), << >>)
            [] e.platform = "Windows" ->
                 IF e.appdata = None
                 THEN Exit(<< "AppData is not defined" >>)
                 ELSE Result(join(e.appdata, "infra"), << >>)
            [] OTHER ->
                 Exit(<< "Unrecognized operating system",
                         "Unable to automatically determine" >>)

\* one call of _os_config_dir
ResolvePath ==
  /\ cfgdir' = os_config_dir(env)
  /\ UNCHANGED << root, fs, CFG, run, env >>

(* --------------------------- specification ---------------------------- *)

\* the environment of the runs of the two tools: the configuration exists
\* in the legacy directory
DefaultEnv ==
  [ legacy |-> TRUE, platform |-> "Linux", xdg |-> None, systemd |-> None,
    appdata |-> None ]
NoCfgDir == [ done |-> FALSE, dir |-> None, exit |-> 0, warnings |-> << >> ]

Init ==
  /\ root \in BOOLEAN
  /\ fs = << >>
  /\ CFG \in Configs
  /\ run = NoRun
  /\ env = DefaultEnv
  /\ cfgdir = NoCfgDir

\* runs of infra.py and cluster.py in any order
Next ==
  \/ InfraCreateOne
  \/ InfraDestroy
  \/ InfraList
  \/ \E tool \in { "infra", "cluster" } : Config(tool)
  \/ ClusterRender
  \/ ClusterApply
  \/ ClusterHosted

Spec == Init /\ [][Next]_vars

\* runs of infra.py alone, with MaxSuffixes outcomes of the random suffix
NextInfra ==
  \/ InfraCreate
  \/ InfraDestroy
  \/ InfraList
  \/ Config("infra")

SpecInfra == Init /\ [][NextInfra]_vars

\* creates, and renders that resolve the release image from a major version
NextRelease ==
  \/ InfraCreateFirstName
  \/ ClusterRenderResolved

SpecRelease == Init /\ [][NextRelease]_vars

\* _os_config_dir in every environment
InitCfg ==
  /\ root = TRUE
  /\ fs = << >>
  /\ CFG \in Configs
  /\ run = NoRun
  /\ env \in Envs
  /\ cfgdir = NoCfgDir

NextCfg == ResolvePath

SpecCfg == InitCfg /\ [][NextCfg]_vars

(* ------------------------------ claims -------------------------------- *)

\* C1: create(n, ...) on a name whose directory exists reports AlreadyExists,
\* starts no external command and leaves every file of every record as it
\* was, the infra_id file of n included.
C1_CreateExistingTouchesNothing ==
  [][ ( /\ run'.tool = "infra" /\ run'.op = "create"
        /\ run'.outcome # "UserCancelled"
        /\ run'.arg \in DOMAIN fs )
      => ( /\ run'.outcome = "AlreadyExists"
           /\ run'.calls = << >>
           /\ fs' = fs ) ]_vars

\* a second create of a name whose first create wrote infra.json, with a
\* suffix other than the first of the sample
C1_Witness ==
  /\ run.op = "create" /\ run.outcome = "AlreadyExists"
  /\ HasFile(run.arg, "infra.json")
  /\ fs[run.arg]["infra_id"] # InfraId(run.arg, FirstSuffix)

\* C2: after a destroy(n) that reached the destroy steps, the directory of n
\* exists iff one of the destroy commands it started exited non-zero.
C2_DestroyRemovesOnlyOnSuccess ==
  [][ ( /\ run'.op = "destroy"
        /\ run'.outcome \in { "Destroyed", "ExternalCommandFailed" } )
      => ( (\E i \in 1..Len(run'.calls) : run'.calls[i].rc # 0)
             <=> run'.arg \in DOMAIN fs' ) ]_vars

\* the infra destroy command succeeded, the IAM one failed, the directory
\* is still there
C2_Witness ==
  /\ run.op = "destroy" /\ Len(run.calls) = 2
  /\ run.calls[1].rc = 0 /\ run.calls[2].rc # 0
  /\ run.arg \in DOMAIN fs

\* C3: render on a directory without infra.json reports MissingArtifact and
\* starts no external command, whatever the other arguments are.
C3_RenderMissingArtifactNoCall ==
  ( /\ run.op = "render" /\ run.arg \in DOMAIN fs
    /\ ~HasFile(run.arg, "infra.json") )
  => ( run.outcome = "MissingArtifact" /\ run.calls = << >> )

\* C4: a render whose external command exits non-zero does not make the
\* infrastructure renderable.
C4_FailedRenderNotRenderable ==
  [][ ( /\ run'.op = "render" /\ run'.outcome = "ExternalCommandFailed"
        /\ run'.arg \notin list_yaml_infras )
      => run'.arg \notin list_yaml_infras' ]_vars

\* the render command line among the commands the last run started
RenderCalls ==
  { i \in 1..Len(run.calls) :
      /\ HasFlag(run.calls[i].argv, "cluster")
      /\ HasFlag(run.calls[i].argv, "--render") }

\* C5: for every access mode, render on a directory that has infra.json runs
\* the render command, and the command carries --external-dns-domain exactly
\* when the mode is Private or PublicAndPrivate and a domain is configured.
C5_RenderRunsForEveryAccessMode ==
  ( run.op = "render" /\ HasFile(run.arg, "infra.json") )
  => /\ RenderCalls # { }
     /\ \A i \in RenderCalls :
          HasFlag(run.calls[i].argv, "--external-dns-domain")
            <=> ( /\ run.access_mode \in { "Private", "PublicAndPrivate" }
                  /\ CFG.external_dns_domain # "" )

\* C6: resolvePath returns the legacy directory when it exists; on Linux
\* without it, <XDG_CONFIG_HOME>/infra when the variable is set, and the
\* legacy directory with a warning when neither the variable nor the
\* systemd-path helper is there.
C6_ResolvePath ==
  cfgdir.done
  => /\ env.legacy => cfgdir.dir = legacy_config_dir
     /\ ( ~env.legacy /\ env.platform = "Linux" /\ env.xdg # None )
          => cfgdir.dir = join(env.xdg, "infra")
     /\ ( /\ ~env.legacy /\ env.platform = "Linux"
          /\ env.xdg = None /\ env.systemd = None )
          => ( cfgdir.dir = legacy_config_dir /\ cfgdir.warnings # << >> )

\* C7: listRenderable is a subset of list; after a successful create of n,
\* n is in list and not in listRenderable; after a successful render of n,
\* n is in listRenderable.
C7_ListRoundTrip ==
  /\ list_yaml_infras \subseteq ListSet(list_infra)
  /\ ( run.op = "create" /\ run.outcome = "Created" )
       => ( /\ run.arg \in ListSet(list_infra)
            /\ run.arg \notin list_yaml_infras )
  /\ ( run.op = "render" /\ run.outcome = "Rendered" )
       => run.arg \in list_yaml_infras

\* a successful render of a record created with both artifact files, while
\* the other record is not renderable
C7_Witness ==
  /\ run.op = "render" /\ run.outcome = "Rendered"
  /\ HasFile(run.arg, "iam.json")
  /\ \E d \in DOMAIN fs : d \notin list_yaml_infras

ConnectivityFlags ==
  { "--public-only", "--enable-proxy", "--enable-secure-proxy" }

\* C8: the command line of create carries the connectivity flag of the
\* choice and no other: Public --public-only, Proxy --enable-proxy,
\* SecureProxy --enable-secure-proxy, NAT gateway none.
C8_ConnectivityFlag ==
  ( run.op = "create" /\ run.calls # << >> )
  => { f \in ConnectivityFlags :
         \E i \in 1..Len(run.calls) : HasFlag(run.calls[i].argv, f) }
       = CASE run.connectivity = "Public" -> { "--public-only" }
           [] run.connectivity = "Proxy" -> { "--enable-proxy" }
           [] run.connectivity = "SecureProxy" -> { "--enable-secure-proxy" }
           [] run.connectivity = "NAT gateway" -> { }

\* a create with the SecureProxy choice that ran both commands
C8_Witness ==
  /\ run.op = "create" /\ Len(run.calls) = 2
  /\ run.connectivity = "SecureProxy"
  /\ HasFlag(run.calls[1].argv, "--enable-secure-proxy")

\* C9: a cancelled prompt of either tool ends the process with status 1 and
\* changes no registry file.
C9_CancelExitsOne ==
  [][ run'.outcome = "UserCancelled" => ( run'.exit = 1 /\ fs' = fs ) ]_vars

\* C10: two records present at the same time have different infra_ids.
C10_InfraIdsDiffer ==
  \A n1 \in DOMAIN fs, n2 \in DOMAIN fs :
    n1 # n2 => fs[n1]["infra_id"] # fs[n2]["infra_id"]

\* both records exist, created with the same suffix, and the infra_id of the
\* first is the name of the second
C10_Witness ==
  /\ DOMAIN fs = Names
  /\ \E s \in generate_random_string :
       \A n \in Names : fs[n]["infra_id"] = InfraId(n, s)
  /\ \E n1 \in Names, n2 \in Names : fs[n1]["infra_id"] = n2

\* C11: over create, destroy, render, apply and list runs, the infra_id
\* file of a record has the same contents after every step as before it, as
\* long as the directory of the record is there before and after the step.
C11_InfraIdNeverChanges ==
  [][ \A n \in DOMAIN fs \cap DOMAIN fs' :
        /\ HasFile(n, "infra_id")
        /\ "infra_id" \in DOMAIN fs'[n]
        /\ fs'[n]["infra_id"] = fs[n]["infra_id"] ]_vars

\* a record that was rendered and then survived a failed destroy, its
\* infra_id still the one create wrote
C11_Witness ==
  /\ run.op = "destroy" /\ run.outcome = "ExternalCommandFailed"
  /\ HasFile(run.arg, "cluster.yaml")
  /\ fs[run.arg]["cluster.yaml"] = "rendered"
  /\ fs[run.arg]["infra_id"] = InfraId(run.arg, FirstSuffix)

\* C12: a create of a name that has no directory starts the external
\* command with the name and infra_id files written (the infra_id file holds
\* the id on the command line) and rolls nothing back: whatever the infra or
\* the IAM step exits with, after the run the directory is there with both
\* files and list shows the name.
C12_CreateKeepsDirectory ==
  [][ ( /\ run'.op = "create" /\ run'.outcome # "UserCancelled"
        /\ run'.arg \notin DOMAIN fs )
      => ( /\ run'.outcome \in { "Created", "ExternalCommandFailed" }
           /\ run'.calls # << >>
           /\ run'.arg \in DOMAIN fs'
           /\ { "name", "infra_id" } \subseteq DOMAIN fs'[run'.arg]
           /\ fs'[run'.arg]["name"] = run'.arg
           /\ fs'[run'.arg]["infra_id"]
                = FlagValue(run'.calls[1].argv, "--infra-id")
           /\ run'.arg \in ListSet(list_infra') ) ]_vars

\* a create whose infra step exited non-zero: one command was started, the
\* directory holds the name and infra_id files and nothing else
C12_Witness ==
  /\ run.op = "create" /\ run.outcome = "ExternalCommandFailed"
  /\ Len(run.calls) = 1 /\ run.calls[1].rc # 0
  /\ run.arg \in DOMAIN fs
  /\ DOMAIN fs[run.arg] = { "name", "infra_id" }

\* C13: a destroy of a record whose directory has neither infra.json nor
\* iam.json starts no external command and removes the directory, so that
\* path_exists is false for the name; and a create of a name that the run
\* before it destroyed is not refused as AlreadyExists.
C13_DestroyWithoutArtifacts ==
  [][ /\ ( /\ run'.op = "destroy"
            /\ run'.outcome \notin { "UserCancelled", "NoInfrastructure" }
            /\ run'.arg \in DOMAIN fs
            /\ ~HasFile(run'.arg, "infra.json")
            /\ ~HasFile(run'.arg, "iam.json") )
          => ( /\ run'.outcome = "Destroyed"
               /\ run'.calls = << >>
               /\ run'.arg \notin DOMAIN fs'
               /\ \A n \in Names : n = run'.arg => ~path_exists(n)' )
      /\ ( /\ run.op = "destroy" /\ run.outcome = "Destroyed"
            /\ run'.op = "create" /\ run'.arg = run.arg )
          => ( /\ run'.outcome \in { "Created", "ExternalCommandFailed" }
               /\ run'.arg \in DOMAIN fs' ) ]_vars

\* a destroy that started no command and removed the directory of a record
\* while the other record is still there
C13_Witness ==
  /\ run.op = "destroy" /\ run.outcome = "Destroyed"
  /\ run.calls = << >>
  /\ run.arg \in Names /\ run.arg \notin DOMAIN fs
  /\ DOMAIN fs # { }

\* name has p as a prefix
HasPrefix(name, p) == \E k \in 0..Len(name) : SubSeq(name, 1, k) = p

\* the tags of the response of the last run whose name has the major version
\* picked as a prefix, by their place in the list
MatchingTags ==
  { i \in 1..Len(run.release.response.tags) :
      HasPrefix(run.release.response.tags[i].name, run.release.selection) }

\* a render run that picked the stable channel and got a response
StableResolved ==
  /\ run.op = "render" /\ run.release.version_type = "stable"
  /\ run.release.response.ok

\* C14: on the stable channel, for every list of tags in the response, the
\* resolver returns the pull-spec of the first tag of the list whose name
\* has the major version as a prefix, and the render command carries it;
\* when no tag has the prefix it returns None without ending the process,
\* render_cluster_yaml runs, and the render command carries the text None.
C14_StableFirstMatch ==
  StableResolved
  => LET tags == run.release.response.tags
         first == CHOOSE i \in MatchingTags : \A j \in MatchingTags : i <= j
         expected == IF MatchingTags = { } THEN None ELSE tags[first].pullSpec
     IN /\ get_release_image(run.release)
             = [ exited |-> FALSE, value |-> expected ]
        /\ run.outcome \in { "MissingArtifact", "UnboundLocalError",
                              "Rendered", "ExternalCommandFailed" }
        /\ HasFile(run.arg, "infra.json") /\ run.access_mode = "Private"
             => RenderCalls # { }
        /\ \A i \in RenderCalls :
             FlagValue(run.calls[i].argv, "--release-image")
               = IF MatchingTags = { } THEN "None" ELSE expected

\* a render that went through with a response of two tags none of which has
\* the major version as a prefix: the command line says --release-image None
C14_Witness ==
  /\ StableResolved /\ run.outcome = "Rendered"
  /\ Len(run.release.response.tags) = 2
  /\ MatchingTags = { }
  /\ \E i \in RenderCalls :
       FlagValue(run.calls[i].argv, "--release-image") = "None"

\* a render with a response of two tags that both have the prefix and differ
C14_FirstOfTwo ==
  /\ StableResolved /\ run.outcome = "Rendered"
  /\ MatchingTags = { 1, 2 }
  /\ run.release.response.tags[1] # run.release.response.tags[2]

\* the destroy commands a destroy of record n starts, as far as the files of
\* the directory tell: one for infra.json, then one for iam.json
ArtifactSteps(files) ==
  SelectSeq(<< "infra", "iam" >>, LAMBDA a : (a \o ".json") \in DOMAIN files)

\* C15: a destroy in which a destroy command exits non-zero leaves every
\* file of every record as it was; every destroy that reaches the steps
\* starts one command per artifact file present, the IAM one also after a
\* failed infra one; and a destroy of the same record right after a failed
\* one starts the same commands again, a step that had succeeded included.
C15_FailedDestroyKeepsNoProgress ==
  [][ /\ ( run'.op = "destroy" /\ run'.outcome = "ExternalCommandFailed" )
          => fs' = fs
      /\ ( /\ run'.op = "destroy"
            /\ run'.outcome \in { "Destroyed", "ExternalCommandFailed" }
            /\ run'.arg \in DOMAIN fs )
          => /\ Len(run'.calls) = Len(ArtifactSteps(fs[run'.arg]))
             /\ \A i \in 1..Len(run'.calls) :
                  /\ run'.calls[i].argv[2] = "destroy"
                  /\ run'.calls[i].argv[3] = ArtifactSteps(fs[run'.arg])[i]
      /\ ( /\ run.op = "destroy" /\ run.outcome = "ExternalCommandFailed"
            /\ run'.op = "destroy" /\ run'.arg = run.arg )
          => /\ Len(run'.calls) = Len(run.calls)
             /\ \A i \in 1..Len(run.calls) :
                  run'.calls[i].argv = run.calls[i].argv ]_vars

\* a destroy of a rendered record whose infra command failed and whose IAM
\* command was started all the same; the five files are still there
C15_Witness ==
  /\ run.op = "destroy" /\ run.outcome = "ExternalCommandFailed"
  /\ Len(run.calls) = 2 /\ run.calls[1].rc # 0
  /\ run.arg \in DOMAIN fs
  /\ DOMAIN fs[run.arg]
       = { "name", "infra_id", "infra.json", "iam.json", "cluster.yaml" }

====
